---- MODULE Spec2Model ----
(***************************************************************************)
(* A model of xsimlab/model.py: the model builder (_ModelBuilder: key      *)
(* resolution, input variables, process dependencies, the stack-based      *)
(* depth-first sort, time processes) and the Model collection (the four    *)
(* lifecycle phases, clone, update_processes, drop_processes).             *)
(***************************************************************************)
EXTENDS Integers, Sequences, FiniteSets, TLC

\* ------------------------------------------------------------------ bounds

\* Number of nodes of the dependency mappings handed to the sorter alone.
MaxNodes == 3

\* Largest number of entries of a `processes` dictionary given to Model().
MaxProcs == 3

NameSeq == <<"a", "b", "c", "d", "e">>

\* Process names (dictionary keys).
Names == {NameSeq[i] : i \in 1..MaxProcs}

VARIABLES
    defs,       \* the process classes: class -> its declared variables, in order
    caps,       \* the process classes: class -> which per-step methods it implements
    heap,       \* the live process instances: identity -> attributes
    M,          \* the Model constructed first (the receiver of every later call)
    R,          \* what the last clone / update_processes / drop_processes call gave
    builder,    \* the _ModelBuilder of the last Model.__init__ run
    call,       \* the last lifecycle call on M: the hooks it invoked and how it ended
    sorter      \* the local state of one _sort_processes call

vars == <<defs, caps, heap, M, R, builder, call, sorter>>

\* ----------------------------------------------------------------- helpers

Last(s) == s[Len(s)]

Front(s) == SubSeq(s, 1, Len(s) - 1)

Range(s) == {s[i] : i \in 1..Len(s)}

\* Sequences over S without repetition: what list(a_set) can return.
ListsOf(S) == {s \in UNION {[1..k -> S] : k \in 0..Cardinality(S)} : \A i, j \in 1..Len(s) : i # j => s[i] # s[j]}

\* The orders in which list(S) may enumerate the set S.
Enumerations(S) == {s \in ListsOf(S) : Len(s) = Cardinality(S)}

IndexOf(s, x) == CHOOSE i \in 1..Len(s) : s[i] = x

\* ------------------------------------------------ variables and process classes

\* The process classes: X and Y are given to Model(), Z never is.
ClassIds == {"X", "Y", "Z"}

DictClasses == {"X", "Y"}

Intents == {"IN", "OUT", "INOUT"}

\* One declared variable: its name, metadata['var_type'], metadata['intent'],
\* metadata['group'] and, for a foreign variable, the class and variable it targets.
Var(name, var_type, intent, group, target_cls, target_var) == [name |-> name, var_type |-> var_type, intent |-> intent, group |-> group, target_cls |-> target_cls, target_var |-> target_var]

\* filter_variables(p_obj): the variables a class declares, in declaration order.
filter_variables(cls) == defs[cls].vars

VarNames(cls) == {filter_variables(cls)[i].name : i \in 1..Len(filter_variables(cls))}

\* filter_variables(p_obj)[var_name]
VarOf(cls, var_name) == filter_variables(cls)[CHOOSE i \in 1..Len(filter_variables(cls)) : filter_variables(cls)[i].name = var_name]

\* get_target_variable(var): the class and the variable a foreign variable names.
get_target_variable(var) == [cls |-> var.target_cls, var |-> VarOf(var.target_cls, var.target_var)]

\* Keys: None, a store key (process name, variable name), an on-demand key
\* (process object, variable name), or a list of keys (group variables).
KeyNone == [tag |-> "none"]

StoreKey(p, v) == [tag |-> "store", p |-> p, v |-> v]

OdKey(obj, v) == [tag |-> "od", obj |-> obj, v |-> v]

ListKey(items) == [tag |-> "list", items |-> items]

\* cls(): a new process object; no name, no keys, every variable slot unset.
NewInstance(cls) == [cls |-> cls, name |-> "None", store_keys |-> [v \in VarNames(cls) |-> KeyNone], od_keys |-> [v \in VarNames(cls) |-> KeyNone], slots |-> [v \in VarNames(cls) |-> 0]]

MaxOf(S) == CHOOSE m \in S : \A x \in S : x <= m

RECURSIVE Concat(_)
Concat(ss) == IF ss = <<>> THEN <<>> ELSE Head(ss) \o Concat(Tail(ss))

\* The keys (names) of a `processes` dictionary given as a list of items.
KeysOf(processes_cls) == [i \in 1..Len(processes_cls) |-> processes_cls[i].name]

\* ---------------------------------------------------- _ModelBuilder.__init__

GroupLabels == {"g"}

\* A variant of _ModelBuilder(processes_cls) that takes the objects that exist
\* already instead of creating new ones.
NewBuilderShared(h, processes_cls) ==
    LET n == Len(processes_cls)
        ids == [i \in 1..n |-> i]
    IN  [cls |-> processes_cls,
         obj |-> [k \in Range(KeysOf(processes_cls)) |-> ids[IndexOf(KeysOf(processes_cls), k)]],
         lookup |-> [c \in {processes_cls[i].cls : i \in 1..n} |-> processes_cls[MaxOf({i \in 1..n : processes_cls[i].cls = c})].name],
         heap |-> [id \in Range(ids) |-> [NewInstance(processes_cls[id].cls) EXCEPT !.name = processes_cls[id].name]] @@ h,
         group_keys |-> [g \in GroupLabels |-> [cached |-> FALSE, store |-> <<>>, od |-> <<>>]],
         scans |-> 0,
         err |-> "none",
         dep |-> [k \in {} |-> {}],
         cycle |-> <<>>]

\* _ModelBuilder(processes_cls) with set_process_names(): one new object per
\* entry, the class -> name lookup (the last entry of a class wins), an empty
\* group cache.  `h` holds the objects that exist already.
NewBuilder(h, processes_cls) ==
    LET n == Len(processes_cls)
        base == MaxOf(DOMAIN h \cup {0})
        ids == [i \in 1..n |-> base + i]
    IN  [cls |-> processes_cls,
         obj |-> [k \in Range(KeysOf(processes_cls)) |-> ids[IndexOf(KeysOf(processes_cls), k)]],
         lookup |-> [c \in {processes_cls[i].cls : i \in 1..n} |-> processes_cls[MaxOf({i \in 1..n : processes_cls[i].cls = c})].name],
         heap |-> [id \in Range(ids) |-> [NewInstance(processes_cls[id - base].cls) EXCEPT !.name = processes_cls[id - base].name]] @@ h,
         group_keys |-> [g \in GroupLabels |-> [cached |-> FALSE, store |-> <<>>, od |-> <<>>]],
         scans |-> 0,
         err |-> "none",
         dep |-> [k \in {} |-> {}],
         cycle |-> <<>>]

\* The (process name, variable) pairs of the nested loops
\* `for p_name, p_obj in self._processes_obj.items(): for var in filter_variables(p_obj, ...)`.
ScanVars(b) == Concat([i \in 1..Len(b.cls) |-> LET vs == filter_variables(b.cls[i].cls) IN [j \in 1..Len(vs) |-> [p |-> b.cls[i].name, var |-> vs[j]]]])

\* ---------------------------------- _get_var_key and _get_group_var_keys

RECURSIVE get_var_key(_, _, _)
RECURSIVE get_group_var_keys(_, _)
RECURSIVE GroupScan(_, _, _, _)

\* A variant of _get_var_key that gives a foreign variable a store key also
\* when its target is an on-demand variable.
get_var_key_both(b, p_name, var) ==
    IF b.err # "none" THEN [b |-> b, store |-> KeyNone, od |-> KeyNone]
    ELSE IF var.var_type = "VARIABLE" THEN [b |-> b, store |-> StoreKey(p_name, var.name), od |-> KeyNone]
    ELSE IF var.var_type = "FOREIGN" THEN
        LET t == get_target_variable(var)
        IN  IF t.cls \notin DOMAIN b.lookup THEN [b |-> [b EXCEPT !.err = "KeyError"], store |-> KeyNone, od |-> KeyNone]
            ELSE IF t.var.var_type = "ON_DEMAND" THEN [b |-> b, store |-> StoreKey(b.lookup[t.cls], t.var.name), od |-> OdKey(b.obj[b.lookup[t.cls]], t.var.name)]
            ELSE [b |-> b, store |-> StoreKey(b.lookup[t.cls], t.var.name), od |-> KeyNone]
    ELSE IF var.var_type = "GROUP" THEN
        LET g == get_group_var_keys(b, var.group)
        IN  [b |-> g.b, store |-> ListKey(g.store), od |-> ListKey(g.od)]
    ELSE [b |-> b, store |-> KeyNone, od |-> KeyNone]

\* A variant of _get_var_key in which a foreign variable whose target class has
\* no process is left without keys instead of raising KeyError.
get_var_key_lenient(b, p_name, var) ==
    IF b.err # "none" THEN [b |-> b, store |-> KeyNone, od |-> KeyNone]
    ELSE IF var.var_type = "VARIABLE" THEN [b |-> b, store |-> StoreKey(p_name, var.name), od |-> KeyNone]
    ELSE IF var.var_type = "FOREIGN" THEN
        LET t == get_target_variable(var)
        IN  IF t.cls \notin DOMAIN b.lookup THEN [b |-> b, store |-> KeyNone, od |-> KeyNone]
            ELSE IF t.var.var_type = "ON_DEMAND" THEN [b |-> b, store |-> KeyNone, od |-> OdKey(b.obj[b.lookup[t.cls]], t.var.name)]
            ELSE [b |-> b, store |-> StoreKey(b.lookup[t.cls], t.var.name), od |-> KeyNone]
    ELSE IF var.var_type = "GROUP" THEN
        LET g == get_group_var_keys(b, var.group)
        IN  [b |-> g.b, store |-> ListKey(g.store), od |-> ListKey(g.od)]
    ELSE [b |-> b, store |-> KeyNone, od |-> KeyNone]

\* _get_var_key: (store_key, od_key) of variable var declared in process p_name,
\* with the builder as the call leaves it (group cache, or a raised KeyError).
get_var_key(b, p_name, var) ==
    IF b.err # "none" THEN [b |-> b, store |-> KeyNone, od |-> KeyNone]
    ELSE IF var.var_type = "VARIABLE" THEN [b |-> b, store |-> StoreKey(p_name, var.name), od |-> KeyNone]
    ELSE IF var.var_type = "FOREIGN" THEN
        LET t == get_target_variable(var)
        IN  IF t.cls \notin DOMAIN b.lookup THEN [b |-> [b EXCEPT !.err = "KeyError"], store |-> KeyNone, od |-> KeyNone]
            ELSE IF t.var.var_type = "ON_DEMAND" THEN [b |-> b, store |-> KeyNone, od |-> OdKey(b.obj[b.lookup[t.cls]], t.var.name)]
            ELSE [b |-> b, store |-> StoreKey(b.lookup[t.cls], t.var.name), od |-> KeyNone]
    ELSE IF var.var_type = "GROUP" THEN
        LET g == get_group_var_keys(b, var.group)
        IN  [b |-> g.b, store |-> ListKey(g.store), od |-> ListKey(g.od)]
    ELSE [b |-> b, store |-> KeyNone, od |-> KeyNone]

\* A variant of the loop that puts each key in front of those found so far.
GroupScanPrepend(b, pairs, store_keys, od_keys) ==
    IF pairs = <<>> \/ b.err # "none" THEN [b |-> b, store |-> store_keys, od |-> od_keys]
    ELSE IF Head(pairs).var.var_type = "GROUP" THEN GroupScan(b, Tail(pairs), store_keys, od_keys)
    ELSE LET k == get_var_key(b, Head(pairs).p, Head(pairs).var)
         IN  GroupScan(k.b, Tail(pairs), IF k.store # KeyNone THEN <<k.store>> \o store_keys ELSE store_keys, IF k.od # KeyNone THEN <<k.od>> \o od_keys ELSE od_keys)

\* The loop body of _get_group_var_keys over the variables labelled with the group.
GroupScan(b, pairs, store_keys, od_keys) ==
    IF pairs = <<>> \/ b.err # "none" THEN [b |-> b, store |-> store_keys, od |-> od_keys]
    ELSE IF Head(pairs).var.var_type = "GROUP" THEN GroupScan(b, Tail(pairs), store_keys, od_keys)
    ELSE LET k == get_var_key(b, Head(pairs).p, Head(pairs).var)
         IN  GroupScan(k.b, Tail(pairs), IF k.store # KeyNone THEN Append(store_keys, k.store) ELSE store_keys, IF k.od # KeyNone THEN Append(od_keys, k.od) ELSE od_keys)

\* A variant of _get_group_var_keys that scans on every call and keeps nothing.
get_group_var_keys_uncached(b, group) ==
    LET r == GroupScan(b, SelectSeq(ScanVars(b), LAMBDA x : x.var.group = group), <<>>, <<>>)
    IN  IF r.b.err # "none" THEN r
        ELSE [b |-> [r.b EXCEPT !.scans = @ + 1], store |-> r.store, od |-> r.od]

\* _get_group_var_keys: from the cache, or one scan of all processes.
get_group_var_keys(b, group) ==
    IF b.group_keys[group].cached THEN [b |-> b, store |-> b.group_keys[group].store, od |-> b.group_keys[group].od]
    ELSE LET r == GroupScan(b, SelectSeq(ScanVars(b), LAMBDA x : x.var.group = group), <<>>, <<>>)
         IN  IF r.b.err # "none" THEN r
             ELSE [b |-> [r.b EXCEPT !.group_keys[group] = [cached |-> TRUE, store |-> r.store, od |-> r.od], !.scans = @ + 1], store |-> r.store, od |-> r.od]

\* ------------------------------------------------------------ set_process_keys

RECURSIVE SetKeys(_, _)
SetKeys(b, pairs) ==
    IF pairs = <<>> \/ b.err # "none" THEN b
    ELSE LET p == Head(pairs).p
             var == Head(pairs).var
             k == get_var_key(b, p, var)
             id == b.obj[p]
         IN  SetKeys([k.b EXCEPT !.heap[id].store_keys[var.name] = IF k.store # KeyNone THEN k.store ELSE @, !.heap[id].od_keys[var.name] = IF k.od # KeyNone THEN k.od ELSE @], Tail(pairs))

set_process_keys(b) == SetKeys(b, ScanVars(b))

\* --------------------------------------------------------- get_input_variables

filter_in(var) == var.var_type # "GROUP" /\ var.intent \in {"IN", "INOUT"}

\* A variant of filter_out that keeps only the variables a process owns.
filter_out_owned(var) == var.intent = "OUT" /\ var.var_type \in {"VARIABLE", "ON_DEMAND"}

filter_out(var) == var.intent = "OUT"

\* p_obj.__xsimlab_store_keys__.get(var.name) for the scanned variables.
StoreKeysOf(b, pairs) == [i \in 1..Len(pairs) |-> b.heap[b.obj[pairs[i].p]].store_keys[pairs[i].var.name]]

in_keys(b) == StoreKeysOf(b, SelectSeq(ScanVars(b), LAMBDA x : filter_in(x.var)))

out_keys(b) == StoreKeysOf(b, SelectSeq(ScanVars(b), LAMBDA x : filter_out(x.var)))

\* `[k for k in set(in_keys) - set(out_keys) if k is not None]`: every order in
\* which the set can be enumerated.
get_input_variables(b) == {SelectSeq(e, LAMBDA k : k # KeyNone) : e \in Enumerations(Range(in_keys(b)) \ Range(out_keys(b)))}

\* --------------------------- _maybe_add_dependency, get_process_dependencies

RECURSIVE maybe_add_dependency(_, _, _, _, _)

\* A variant of _maybe_add_dependency that tests the intent of the target
\* variable before the intent of the variable itself.
maybe_add_dependency_target_first(b, dep, p_name, var_name, key) ==
    IF key.tag = "list" THEN
        IF key.items = <<>> THEN dep
        ELSE maybe_add_dependency(b, maybe_add_dependency(b, dep, p_name, var_name, Head(key.items)), p_name, var_name, ListKey(Tail(key.items)))
    ELSE LET target_p_name == IF key.tag = "od" THEN b.lookup[b.heap[key.obj].cls] ELSE key.p
             target_p_obj == IF key.tag = "od" THEN key.obj ELSE b.obj[target_p_name]
             var == VarOf(b.heap[b.obj[p_name]].cls, var_name)
             target_var == VarOf(b.heap[target_p_obj].cls, key.v)
         IN  IF target_p_name = p_name THEN dep
             ELSE IF target_var.intent = "OUT" THEN [dep EXCEPT ![p_name] = @ \cup {target_p_name}]
             ELSE IF var.intent = "OUT" THEN [dep EXCEPT ![target_p_name] = @ \cup {p_name}]
             ELSE dep

\* A variant of _maybe_add_dependency without the test for a key that refers
\* to the process itself.
maybe_add_dependency_with_self(b, dep, p_name, var_name, key) ==
    IF key.tag = "list" THEN
        IF key.items = <<>> THEN dep
        ELSE maybe_add_dependency(b, maybe_add_dependency(b, dep, p_name, var_name, Head(key.items)), p_name, var_name, ListKey(Tail(key.items)))
    ELSE LET target_p_name == IF key.tag = "od" THEN b.lookup[b.heap[key.obj].cls] ELSE key.p
             target_p_obj == IF key.tag = "od" THEN key.obj ELSE b.obj[target_p_name]
             var == VarOf(b.heap[b.obj[p_name]].cls, var_name)
             target_var == VarOf(b.heap[target_p_obj].cls, key.v)
         IN  IF var.intent = "OUT" THEN [dep EXCEPT ![target_p_name] = @ \cup {p_name}]
             ELSE IF target_var.intent = "OUT" THEN [dep EXCEPT ![p_name] = @ \cup {target_p_name}]
             ELSE dep

\* _maybe_add_dependency: the dependency sets after one (variable, key) item;
\* a list of keys (a group) is handled item by item.
maybe_add_dependency(b, dep, p_name, var_name, key) ==
    IF key.tag = "list" THEN
        IF key.items = <<>> THEN dep
        ELSE maybe_add_dependency(b, maybe_add_dependency(b, dep, p_name, var_name, Head(key.items)), p_name, var_name, ListKey(Tail(key.items)))
    ELSE LET target_p_name == IF key.tag = "od" THEN b.lookup[b.heap[key.obj].cls] ELSE key.p
             target_p_obj == IF key.tag = "od" THEN key.obj ELSE b.obj[target_p_name]
             var == VarOf(b.heap[b.obj[p_name]].cls, var_name)
             target_var == VarOf(b.heap[target_p_obj].cls, key.v)
         IN  IF target_p_name = p_name THEN dep
             ELSE IF var.intent = "OUT" THEN [dep EXCEPT ![target_p_name] = @ \cup {p_name}]
             ELSE IF target_var.intent = "OUT" THEN [dep EXCEPT ![p_name] = @ \cup {target_p_name}]
             ELSE dep

\* The items of __xsimlab_store_keys__ followed by those of __xsimlab_od_keys__
\* of every process, in the order of the loops of get_process_dependencies.
KeyItems(b) ==
    Concat([i \in 1..Len(b.cls) |->
        LET p == b.cls[i].name
            o == b.heap[b.obj[p]]
            vs == filter_variables(b.cls[i].cls)
            st == SelectSeq(vs, LAMBDA v : o.store_keys[v.name] # KeyNone)
            od == SelectSeq(vs, LAMBDA v : o.od_keys[v.name] # KeyNone)
        IN  [j \in 1..Len(st) |-> [p |-> p, var_name |-> st[j].name, key |-> o.store_keys[st[j].name]]] \o [j \in 1..Len(od) |-> [p |-> p, var_name |-> od[j].name, key |-> o.od_keys[od[j].name]]]])

RECURSIVE AddDependencies(_, _, _)
AddDependencies(b, dep, items) == IF items = <<>> THEN dep ELSE AddDependencies(b, maybe_add_dependency(b, dep, Head(items).p, Head(items).var_name, Head(items).key), Tail(items))

\* self._dep_processes as sets, before `{k: list(v) ...}`.
DepSets(b) == AddDependencies(b, [k \in Range(KeysOf(b.cls)) |-> {}], KeyItems(b))

EmptyMap == [k \in {} |-> <<>>]

\* One list per key of `sets`, each an enumeration of the set of that key.
RECURSIVE ListChoices(_, _)
ListChoices(sets, ks) == IF ks = {} THEN {EmptyMap} ELSE LET k == CHOOSE x \in ks : TRUE IN {(k :> e) @@ f : e \in Enumerations(sets[k]), f \in ListChoices(sets, ks \ {k})}

\* get_process_dependencies: `{k: list(v) ...}`, every outcome of turning the
\* sets into lists.
get_process_dependencies(b) == ListChoices(DepSets(b), DOMAIN DepSets(b))

\* ------------------------------------------------- _ModelBuilder._sort_processes

\* The locals of _sort_processes before its outer loop starts; `dep` is
\* self._dep_processes (name -> list of names), `keys` its key order, `ki` the
\* position of the outer `for key in self._dep_processes` loop.
InitSort(dep, keys) == [dep |-> dep, keys |-> keys, ki |-> 1, nodes |-> <<>>, seen |-> {}, completed |-> {}, ordered |-> <<>>, status |-> "run", cycle |-> <<>>, pushes |-> 0]

\* The successors of cur that are not completed, in list order.
Pending(s, cur) == SelectSeq(s.dep[cur], LAMBDA n : n \notin s.completed)

\* `raise RuntimeError("Cycle detected ...")`: the stack is popped down to the
\* topmost occurrence of nxt and the popped names, reversed, are the path.
RaiseCycle(s, nxt) ==
    LET p == CHOOSE i \in 1..Len(s.nodes) : s.nodes[i] = nxt /\ \A j \in (i + 1)..Len(s.nodes) : s.nodes[j] # nxt
    IN  [s EXCEPT !.status = "cycle", !.cycle = SubSeq(s.nodes, p, Len(s.nodes)) \o <<nxt>>, !.nodes = SubSeq(s.nodes, 1, p - 1), !.seen = @ \cup {Last(s.nodes)}]

\* A variant of the completion step that puts cur in front of the names
\* recorded so far.
CompleteEarly(s, cur) == [s EXCEPT !.ordered = <<cur>> \o @, !.completed = @ \cup {cur}, !.seen = (@ \cup {cur}) \ {cur}, !.nodes = Front(@)]

\* `ordered.append(cur); completed.add(cur); seen.remove(cur); nodes.pop()`
Complete(s, cur) == [s EXCEPT !.ordered = Append(@, cur), !.completed = @ \cup {cur}, !.seen = (@ \cup {cur}) \ {cur}, !.nodes = Front(@)]

\* A variant of the iteration that skips successors already seen instead of
\* raising.
VisitTopSkipSeen(s) ==
    LET cur == Last(s.nodes)
        seen1 == s.seen \cup {cur}
        pend == SelectSeq(Pending(s, cur), LAMBDA n : n \notin seen1)
    IN  IF cur \in s.completed THEN [s EXCEPT !.nodes = Front(@)]
        ELSE IF pend # <<>> THEN [s EXCEPT !.seen = seen1, !.nodes = @ \o pend, !.pushes = @ + Len(pend)]
        ELSE Complete(s, cur)

\* A variant of the iteration that records cur at once, without visiting the
\* names it depends on.
VisitTopEager(s) ==
    LET cur == Last(s.nodes)
    IN  IF cur \in s.completed THEN [s EXCEPT !.nodes = Front(@)]
        ELSE Complete(s, cur)

\* A variant of the iteration that leaves a completed name on the stack.
VisitTopKeepCompleted(s) ==
    LET cur == Last(s.nodes)
        seen1 == s.seen \cup {cur}
        pend == Pending(s, cur)
        hits == {j \in 1..Len(pend) : pend[j] \in seen1}
    IN  IF cur \in s.completed THEN s
        ELSE IF hits # {} THEN RaiseCycle(s, pend[CHOOSE j \in hits : \A i \in hits : j <= i])
        ELSE IF pend # <<>> THEN [s EXCEPT !.seen = seen1, !.nodes = @ \o pend, !.pushes = @ + Len(pend)]
        ELSE Complete(s, cur)

\* One iteration of `while nodes` for the node cur on top of the stack.
VisitTop(s) ==
    LET cur == Last(s.nodes)
        seen1 == s.seen \cup {cur}
        pend == Pending(s, cur)
        hits == {j \in 1..Len(pend) : pend[j] \in seen1}
    IN  IF cur \in s.completed THEN [s EXCEPT !.nodes = Front(@)]
        ELSE IF hits # {} THEN RaiseCycle(s, pend[CHOOSE j \in hits : \A i \in hits : j <= i])
        ELSE IF pend # <<>> THEN [s EXCEPT !.seen = seen1, !.nodes = @ \o pend, !.pushes = @ + Len(pend)]
        ELSE Complete(s, cur)

\* A variant of the outer loop that takes the keys from the last to the first.
NextKeyFromEnd(s) ==
    IF s.ki > Len(s.keys) THEN [s EXCEPT !.status = "done"]
    ELSE IF s.keys[Len(s.keys) + 1 - s.ki] \in s.completed THEN [s EXCEPT !.ki = @ + 1]
    ELSE [s EXCEPT !.ki = @ + 1, !.nodes = <<s.keys[Len(s.keys) + 1 - s.ki]>>, !.pushes = @ + 1]

\* The outer loop `for key in self._dep_processes` when the stack is empty.
NextKey(s) ==
    IF s.ki > Len(s.keys) THEN [s EXCEPT !.status = "done"]
    ELSE IF s.keys[s.ki] \in s.completed THEN [s EXCEPT !.ki = @ + 1]
    ELSE [s EXCEPT !.ki = @ + 1, !.nodes = <<s.keys[s.ki]>>, !.pushes = @ + 1]

SortStep(s) == IF s.nodes = <<>> THEN NextKey(s) ELSE VisitTop(s)

RECURSIVE SortRun(_)
SortRun(s) == IF s.status # "run" THEN s ELSE SortRun(SortStep(s))

\* _sort_processes: the final locals (status "done" with `ordered`, or "cycle").
sort_processes(dep, keys) == SortRun(InitSort(dep, keys))

\* ------------------------------ get_sorted_processes, get_time_processes

has_method(cls, meth) == caps[cls][meth]

\* A variant of is_time_process that looks for run_step only.
is_time_process_run_only(cls) == has_method(cls, "run_step")

is_time_process(cls) == has_method(cls, "run_step") \/ has_method(cls, "finalize_step")

\* get_time_processes: the names of self._sorted_processes whose object is a
\* time process, in that order.
get_time_processes(b, sorted) == SelectSeq(sorted, LAMBDA p : is_time_process(b.heap[b.obj[p]].cls))

\* ------------------------------------------------------------ Model.__init__

\* What is left of a builder once Model.__init__ is over (kept for inspection).
BuilderView(b, dep, err, cycle) == [cls |-> b.cls, obj |-> b.obj, objs |-> [k \in DOMAIN b.obj |-> b.heap[b.obj[k]]], lookup |-> b.lookup, group_keys |-> b.group_keys, scans |-> b.scans, dep |-> dep, err |-> err, cycle |-> cycle]

\* The rest of Model.__init__ once the keys are set, for one enumeration of the
\* input set and of the dependency lists.  `h` holds the objects that existed
\* before the call: when the sort raises, the new objects are dropped.
FinishModel(h, b, input_vars, dep) ==
    LET s == sort_processes(dep, KeysOf(b.cls))
    IN  IF s.status = "cycle"
        THEN [model |-> [status |-> "RuntimeError", cycle |-> s.cycle], heap |-> [id \in DOMAIN h |-> b.heap[id]], builder |-> BuilderView(b, dep, "RuntimeError", s.cycle)]
        ELSE [model |-> [status |-> "ok", processes |-> s.ordered, obj |-> b.obj, input_vars |-> input_vars, dep_processes |-> dep, time_processes |-> get_time_processes(b, s.ordered)], heap |-> b.heap, builder |-> BuilderView(b, dep, "none", <<>>)]

\* Model(processes_cls): every outcome: a Model with the heap holding its new
\* objects, or the exception raised (KeyError from key resolution, RuntimeError
\* from the sort) and no Model.
ModelInit(h, processes_cls) ==
    LET b == set_process_keys(NewBuilder(h, processes_cls))
    IN  IF b.err # "none"
        THEN {[model |-> [status |-> b.err], heap |-> [id \in DOMAIN h |-> b.heap[id]], builder |-> BuilderView(b, EmptyMap, b.err, <<>>)]}
        ELSE {FinishModel(h, b, iv, dep) : iv \in get_input_variables(b), dep \in get_process_dependencies(b)}

\* ------------------------------------------------------------------ inputs

\* The `processes` dictionaries of up to MaxProcs entries, names in order.
ProcessDicts == UNION {{[i \in 1..n |-> [name |-> NameSeq[i], cls |-> c[i]]] : c \in [1..n -> DictClasses]} : n \in 1..MaxProcs}

\* A class declares a variable "u" of its own and possibly a second variable
\* "f": a foreign variable naming the "u" of a class, or a group variable.
OwnVars(types, groups) == {Var("u", "VARIABLE", i, g, "none", "none") : i \in types \cap Intents, g \in groups} \cup {Var("u", "ON_DEMAND", "OUT", "none", "none", "none") : x \in types \cap {"ON_DEMAND"}}

ForeignVars(intents, groups, targets) == {Var("f", "FOREIGN", i, g, c, "u") : i \in intents, g \in groups, c \in targets}

GroupVars == {Var("f", "GROUP", "IN", g, "none", "none") : g \in GroupLabels}

ClassDefs(own, second) == {[vars |-> <<u>>] : u \in own} \cup {[vars |-> <<u, f>>] : u \in own, f \in second}

\* The methods a class implements: initialize and finalize always, run_step
\* and finalize_step as the class chooses.
\* The class that is never given to Model().
ClassZ == [vars |-> <<Var("u", "VARIABLE", "OUT", "none", "none", "none")>>]

Universes(defsX, defsY) == {[X |-> x, Y |-> y, Z |-> ClassZ] : x \in defsX, y \in defsY}

BothCaps == [initialize |-> TRUE, run_step |-> TRUE, finalize_step |-> TRUE, finalize |-> TRUE]

Caps == {[BothCaps EXCEPT !.run_step = r, !.finalize_step = f] : r \in BOOLEAN, f \in BOOLEAN}

NoModel == [status |-> "new"]

NoCall == [phase |-> "none"]

NoBuilder == [err |-> "new"]

IdleSorter == [status |-> "idle"]

EmptyHeap == [id \in {} |-> 0]

\* Before Model() is called: the classes exist, nothing else does.
InitWith(universes, capsets) == defs \in universes /\ caps \in capsets /\ heap = EmptyHeap /\ M = NoModel /\ R = NoModel /\ builder = NoBuilder /\ call = NoCall /\ sorter = IdleSorter

\* M = Model(processes)
Construct == M.status = "new" /\ \E processes \in ProcessDicts : \E out \in ModelInit(heap, processes) : M' = out.model /\ heap' = out.heap /\ builder' = ("via" :> "Model") @@ out.builder /\ UNCHANGED <<defs, caps, R, call, sorter>>

\* ------------------------------ initialize, run_step, finalize_step, finalize

\* What a hook may do when invoked: return, or raise an error of its own.
HookErrors == {"HookError"}

\* A variant of the loop that goes on with the next object after a hook raised.
RECURSIVE RunHooksContinue(_, _, _, _, _)
RunHooksContinue(seq, meth, outcome, i, log) ==
    IF i > Len(seq) THEN [phase |-> meth, log |-> log, result |-> IF \E j \in 1..Len(log) : outcome[log[j].p] # "ok" THEN "raised" ELSE "returned", error |-> IF \E j \in 1..Len(log) : outcome[log[j].p] # "ok" THEN outcome[log[CHOOSE j \in 1..Len(log) : outcome[log[j].p] # "ok"].p] ELSE "none"]
    ELSE IF ~has_method(heap[M.obj[seq[i]]].cls, meth) THEN [phase |-> meth, log |-> log, result |-> "raised", error |-> "AttributeError"]
    ELSE RunHooksContinue(seq, meth, outcome, i + 1, Append(log, [p |-> seq[i], obj |-> M.obj[seq[i]]]))

\* `for proc in ...: proc.meth()` from position i on.  Looking up a method the
\* object does not have raises AttributeError before anything is invoked; an
\* error raised by a hook ends the loop and is the error of the call.
RECURSIVE RunHooks(_, _, _, _, _)
RunHooks(seq, meth, outcome, i, log) ==
    IF i > Len(seq) THEN [phase |-> meth, log |-> log, result |-> "returned", error |-> "none"]
    ELSE IF ~has_method(heap[M.obj[seq[i]]].cls, meth) THEN [phase |-> meth, log |-> log, result |-> "raised", error |-> "AttributeError"]
    ELSE IF outcome[seq[i]] # "ok" THEN [phase |-> meth, log |-> Append(log, [p |-> seq[i], obj |-> M.obj[seq[i]]]), result |-> "raised", error |-> outcome[seq[i]]]
    ELSE RunHooks(seq, meth, outcome, i + 1, Append(log, [p |-> seq[i], obj |-> M.obj[seq[i]]]))

\* One call of a phase: at most one object's hook raises when invoked.
Phase(seq, meth) == M.status = "ok" /\ \E failing \in Names \cup {"nobody"}, e \in HookErrors : call' = ("failing" :> (IF failing \in Range(seq) THEN failing ELSE "nobody")) @@ ("raises" :> e) @@ RunHooks(seq, meth, [p \in Names |-> IF p = failing THEN e ELSE "ok"], 1, <<>>) /\ UNCHANGED <<defs, caps, heap, M, R, builder, sorter>>

Initialize == Phase(M.processes, "initialize")

RunStep == Phase(M.time_processes, "run_step")

FinalizeStep == Phase(M.time_processes, "finalize_step")

Finalize == Phase(M.processes, "finalize")

\* ------------------------------------ clone, update_processes, drop_processes

\* A variant that lists the processes by name instead of in sorted order.
ClassesOfByName(model) == LET ns == SelectSeq(NameSeq, LAMBDA n : n \in DOMAIN model.obj) IN [i \in 1..Len(ns) |-> [name |-> ns[i], cls |-> heap[model.obj[ns[i]]].cls]]

\* `{k: type(obj) for k, obj in self._processes.items()}`
ClassesOf(model) == [i \in 1..Len(model.processes) |-> [name |-> model.processes[i], cls |-> heap[model.obj[model.processes[i]]].cls]]

\* dict.update with one item: the value of an existing key is replaced in
\* place, a new key is appended.
DictUpdate(d, item) == IF item.name \in Range(KeysOf(d)) THEN [i \in 1..Len(d) |-> IF d[i].name = item.name THEN item ELSE d[i]] ELSE Append(d, item)

\* The objects M holds (what a call on M starts from; objects nothing refers
\* to any more are gone).
ReceiverHeap == [id \in {M.obj[k] : k \in DOMAIN M.obj} |-> heap[id]]

\* `return type(self)(processes_cls)`
\* `keys` is the argument of drop_processes (the empty set for the other calls).
RebuildWith(via, keys, processes_cls) == R.status = "new" /\ \E out \in ModelInit(ReceiverHeap, processes_cls) : R' = out.model /\ heap' = out.heap /\ builder' = ("via" :> via) @@ ("keys" :> keys) @@ out.builder /\ UNCHANGED <<defs, caps, M, call, sorter>>

Rebuild(via, processes_cls) == RebuildWith(via, {}, processes_cls)

Clone == M.status = "ok" /\ Rebuild("clone", ClassesOf(M))

UpdateProcesses == M.status = "ok" /\ \E k \in Names, c \in DictClasses : Rebuild("update_processes", DictUpdate(ClassesOf(M), [name |-> k, cls |-> c]))

\* `if isinstance(keys, str): keys = [keys]`: a string is the list of that one
\* name, so `keys` is a set of names, of the receiver or not.
DropProcesses == M.status = "ok" /\ \E keys \in SUBSET Names : RebuildWith("drop_processes", keys, SelectSeq(ClassesOf(M), LAMBDA e : e.name \notin keys))

\* The caller lets go of the returned pipeline (or forgets the error).
Discard == R.status # "new" /\ R' = NoModel /\ heap' = ReceiverHeap /\ builder' = NoBuilder /\ UNCHANGED <<defs, caps, M, call, sorter>>

\* Number of process objects of one returned pipeline that are written to.
MaxWrites == 1

StoredVars(cls) == {v \in VarNames(cls) : VarOf(cls, v).var_type = "VARIABLE"}

Written == Cardinality({p \in DOMAIN R.obj : \E v \in DOMAIN heap[R.obj[p]].slots : heap[R.obj[p]].slots[v] # 0})

\* A write to a stored slot of a process object of the returned pipeline.
WriteSlot == R.status = "ok" /\ Written < MaxWrites /\ \E p \in DOMAIN R.obj : \E v \in StoredVars(heap[R.obj[p]].cls) : heap' = [heap EXCEPT ![R.obj[p]].slots[v] = 1] /\ UNCHANGED <<defs, caps, M, R, builder, call, sorter>>

\* ------------------------------------------------------------ specifications

\* X declares "u" and possibly a group variable; Y declares "u" and possibly
\* a foreign variable naming the "u" of X or of Z.
RebuildDefsX == ClassDefs(OwnVars({"IN", "OUT"}, {"none"}), GroupVars)

RebuildDefsY == ClassDefs(OwnVars({"OUT"}, {"none"}), ForeignVars({"IN"}, {"none", "g"}, {"X"}) \cup ForeignVars({"IN"}, {"g"}, {"Z"}))

Init == InitWith(Universes(RebuildDefsX, RebuildDefsY), {[c \in ClassIds |-> BothCaps]})

Next == Construct \/ Clone \/ UpdateProcesses \/ DropProcesses \/ WriteSlot \/ Discard

Spec == Init /\ [][Next]_vars

LifeClassDefs == ClassDefs(OwnVars({"OUT"}, {"none"}), ForeignVars({"IN"}, {"none"}, DictClasses))

InitLife == InitWith(Universes(LifeClassDefs, LifeClassDefs), {[c \in ClassIds |-> IF c \in DictClasses THEN f[c] ELSE BothCaps] : f \in [DictClasses -> Caps]})

NextLife == Construct \/ Initialize \/ RunStep \/ FinalizeStep \/ Finalize

SpecLife == InitLife /\ [][NextLife]_vars

\* ------------------------------------------------ construction on its own

WideClassDefs == ClassDefs(OwnVars({"OUT", "INOUT"}, {"none"}) \cup OwnVars({"OUT"}, {"g"}) \cup OwnVars({"ON_DEMAND"}, {"none"}), ForeignVars({"IN", "OUT"}, {"none"}, DictClasses) \cup ForeignVars({"IN"}, {"g"}, DictClasses) \cup GroupVars)

InitBuild == InitWith(Universes(WideClassDefs, WideClassDefs), {[c \in ClassIds |-> BothCaps]})

NextBuild == Construct

SpecBuild == InitBuild /\ [][NextBuild]_vars

\* ------------------------------------------- drop_processes on three classes

\* Dictionaries whose values are any of the three classes.
AllClassDicts == UNION {{[i \in 1..n |-> [name |-> NameSeq[i], cls |-> c[i]]] : c \in [1..n -> ClassIds]} : n \in 1..MaxProcs}

\* M = Model(processes), for a dictionary of AllClassDicts.
ConstructAny == M.status = "new" /\ \E processes \in AllClassDicts : \E out \in ModelInit(heap, processes) : M' = out.model /\ heap' = out.heap /\ builder' = ("via" :> "Model") @@ out.builder /\ UNCHANGED <<defs, caps, R, call, sorter>>

\* X declares "u" and possibly a group variable; Y declares "u" and possibly a
\* foreign variable naming the "u" of X or of Z; Z declares "u", in the group
\* or not.
DropUniverses == {[X |-> x, Y |-> y, Z |-> z] : x \in ClassDefs(OwnVars({"IN"}, {"none"}), GroupVars), y \in ClassDefs(OwnVars({"OUT"}, {"none"}), ForeignVars({"IN", "OUT"}, {"none", "g"}, {"X", "Z"})), z \in ClassDefs(OwnVars({"OUT"}, {"none", "g"}), {})}

InitDrop == InitWith(DropUniverses, {[c \in ClassIds |-> BothCaps]})

NextDrop == ConstructAny \/ DropProcesses \/ Discard

SpecDrop == InitDrop /\ [][NextDrop]_vars

\* ------------------------------------------------------- the sorter on its own

NodeKeys(n) == SubSeq(NameSeq, 1, n)

\* Every mapping get_process_dependencies can hand over for n processes: one
\* list per name, of other names of the mapping, none twice.
RECURSIVE DepChoices(_, _)
DepChoices(keys, ks) == IF ks = {} THEN {EmptyMap} ELSE LET k == CHOOSE x \in ks : TRUE IN {(k :> e) @@ f : e \in ListsOf(keys \ {k}), f \in DepChoices(keys, ks \ {k})}

DepMappings(n) == DepChoices(Range(NodeKeys(n)), Range(NodeKeys(n)))

InitSorter == \E n \in 1..MaxNodes : \E dep \in DepMappings(n) : sorter = InitSort(dep, NodeKeys(n)) /\ defs = EmptyMap /\ caps = EmptyMap /\ heap = EmptyHeap /\ M = NoModel /\ R = NoModel /\ builder = NoBuilder /\ call = NoCall

SortAdvance == sorter.status = "run" /\ sorter' = SortStep(sorter) /\ UNCHANGED <<defs, caps, heap, M, R, builder, call>>

NextSort == SortAdvance

SpecSort == InitSorter /\ [][NextSort]_vars

\* The loops of _sort_processes run on without waiting for anything: a step
\* that can be taken is taken.
SpecSortFair == InitSorter /\ [][NextSort]_vars /\ WF_vars(SortAdvance)

\* ------------------------------------------------ graphs, stated declaratively

\* q is in the depends-on collection of p.
DependsOn(dep, p, q) == p \in DOMAIN dep /\ q \in Range(dep[p])

RECURSIVE Closure(_, _, _)
Closure(dep, S, n) == IF n = 0 THEN S ELSE Closure(dep, S \cup {q \in DOMAIN dep : \E p \in S : DependsOn(dep, p, q)}, n - 1)

\* The names p depends on, directly or not.
Descendants(dep, p) == Closure(dep, Range(dep[p]), Cardinality(DOMAIN dep))

HasCycle(dep) == \E p \in DOMAIN dep : p \in Descendants(dep, p)

IsPermutationOf(s, S) == Range(s) = S /\ Len(s) = Cardinality(S)

DependenciesFirst(dep, ordered) == \A p \in DOMAIN dep : \A d \in Range(dep[p]) : IndexOf(ordered, d) < IndexOf(ordered, p)

\* ------------------------------------------------------------------ claims

\* C1: for every acyclic dependency mapping _sort_processes returns (raises no
\* cycle error) a permutation of the process names in which every dependency
\* comes before its dependent.
C1_SortedIsTopological == (sorter.status \notin {"idle", "run"} /\ ~HasCycle(sorter.dep)) => (sorter.status = "done" /\ IsPermutationOf(sorter.ordered, DOMAIN sorter.dep) /\ DependenciesFirst(sorter.dep, sorter.ordered))

\* C1 witness: a finished sort of a mapping with edges in which a name was
\* pushed more than once and the result is not the key order.
C1_Witness == sorter.status = "done" /\ sorter.ordered # sorter.keys /\ sorter.pushes > Len(sorter.keys) /\ \E p \in DOMAIN sorter.dep : Len(sorter.dep[p]) >= 2

\* The last Model.__init__ run got as far as the dependencies.
Built == builder.err \in {"none", "RuntimeError"}

\* What the last Model.__init__ run gave to its caller.
Result == IF builder.via = "Model" THEN M ELSE R

\* The process objects and declared variables of the last build.
BObj(p) == builder.objs[p]

BVars(p) == Range(filter_variables(BObj(p).cls))

AtomsOf(key) == IF key.tag = "list" THEN Range(key.items) ELSE IF key.tag = "none" THEN {} ELSE {key}

\* The single keys variable v of process p resolved to (group lists opened).
AtomKeys(p, v) == AtomsOf(BObj(p).store_keys[v.name]) \cup AtomsOf(BObj(p).od_keys[v.name])

\* The process a key refers to, and the variable of it.
KeyProcess(k) == IF k.tag = "od" THEN CHOOSE p \in DOMAIN builder.obj : builder.obj[p] = k.obj ELSE k.p

KeyVariable(k) == VarOf(BObj(KeyProcess(k)).cls, k.v)

\* p holds a foreign variable with intent OUT whose key refers to q.
ForeignOutTo(p, q) == \E v \in BVars(p) : v.var_type = "FOREIGN" /\ v.intent = "OUT" /\ \E k \in AtomKeys(p, v) : KeyProcess(k) = q

MutualForeignOut == \E p, q \in DOMAIN builder.obj : p # q /\ ForeignOutTo(p, q) /\ ForeignOutTo(q, p)

\* C2: whenever the dependency graph of a build holds a cycle, and in
\* particular when two processes hold foreign intent-OUT variables referring
\* to each other, Model() raises the cycle error and returns no Model.
C2_CycleAbortsConstruction == (Built /\ (HasCycle(builder.dep) \/ MutualForeignOut)) => (Result.status = "RuntimeError" /\ builder.err = "RuntimeError" /\ (builder.via = "Model" => heap = EmptyHeap))

\* C2 witness: a build of two processes with mutual foreign OUT references failed.
C2_Witness == Built /\ MutualForeignOut /\ M.status = "RuntimeError" /\ Len(builder.cls) = 2

\* C3 (as claimed): the reported cycle path starts and ends with the same name,
\* every consecutive pair (u, v) of it is an edge (v in the depends-on list of
\* u), and it holds only names of the current traversal path (seen).
C3_CyclePathIsCycle == sorter.status = "cycle" => (sorter.cycle[1] = Last(sorter.cycle) /\ (\A i \in 1..(Len(sorter.cycle) - 1) : DependsOn(sorter.dep, sorter.cycle[i], sorter.cycle[i + 1])) /\ Range(sorter.cycle) \subseteq sorter.seen)

\* The declared variables of the processes of M, as (process name, variable).
DeclaredIn(model) == UNION {{<<p, v>> : v \in Range(filter_variables(heap[model.obj[p]].cls))} : p \in DOMAIN model.obj}

StoredKey(model, pv) == heap[model.obj[pv[1]]].store_keys[pv[2].name]

InKeys(model) == {StoredKey(model, pv) : pv \in {x \in DeclaredIn(model) : x[2].var_type # "GROUP" /\ x[2].intent \in {"IN", "INOUT"}}}

OutKeys(model) == {StoredKey(model, pv) : pv \in {x \in DeclaredIn(model) : x[2].intent = "OUT"}}

\* C4: the input variables of a Model are exactly the store keys of its
\* non-group IN/INOUT variables minus the store keys of its OUT variables, each
\* once and never None; so no key an OUT variable resolves to is an input.
C4_InputVars == M.status = "ok" => (Range(M.input_vars) = (InKeys(M) \ OutKeys(M)) \ {KeyNone} /\ Len(M.input_vars) = Cardinality(Range(M.input_vars)) /\ KeyNone \notin Range(M.input_vars) /\ \A pv \in DeclaredIn(M) : pv[2].intent = "OUT" => StoredKey(M, pv) \notin Range(M.input_vars))

\* C4 witness: a Model with an input, a key both IN and OUT variables resolve
\* to (not an input), and an IN variable without a store key.
C4_Witness == M.status = "ok" /\ Len(M.input_vars) >= 1 /\ (InKeys(M) \cap OutKeys(M)) \ {KeyNone} # {} /\ KeyNone \in InKeys(M)

\* (i) a variable of p that is not OUT resolves to an OUT variable of q.
DependsByTarget(p, q) == \E v \in BVars(p) : v.intent # "OUT" /\ \E k \in AtomKeys(p, v) : KeyProcess(k) = q /\ KeyVariable(k).intent = "OUT"

\* (ii) an OUT variable of q resolves to a variable of p.
DependsBySource(p, q) == \E v \in BVars(q) : v.intent = "OUT" /\ \E k \in AtomKeys(q, v) : KeyProcess(k) = p

\* C5: q is in the depends-on list of p exactly when p # q and (i) or (ii)
\* holds; an OUT variable resolving to an OUT variable gives only the edge of
\* (ii), and two variables that are not OUT give no edge and no error.
C5_DependenciesExact == Built => (DOMAIN builder.dep = DOMAIN builder.obj /\ \A p, q \in DOMAIN builder.obj : (q \in Range(builder.dep[p])) <=> (p # q /\ (DependsByTarget(p, q) \/ DependsBySource(p, q))))

\* C5 witness: an OUT variable of p resolves to an OUT variable of q (edge
\* q -> p only), and a group variable gives an edge, in a build that succeeded.
C5_Witness == M.status = "ok" /\ \E p, q \in DOMAIN builder.obj : p # q /\ (\E v \in BVars(p) : v.intent = "OUT" /\ \E k \in AtomKeys(p, v) : KeyProcess(k) = q /\ KeyVariable(k).intent = "OUT") /\ q \notin Range(builder.dep[p]) /\ p \in Range(builder.dep[q]) /\ \E r \in DOMAIN builder.obj : \E v \in BVars(r) : v.var_type = "GROUP" /\ \E k \in AtomKeys(r, v) : KeyProcess(k) \in Range(builder.dep[r])

\* A foreign variable of a class of the dictionary names a class that is not
\* in the dictionary.
DanglingForeign(processes_cls) == \E i \in 1..Len(processes_cls) : \E v \in Range(filter_variables(processes_cls[i].cls)) : v.var_type = "FOREIGN" /\ v.target_cls \notin {processes_cls[j].cls : j \in 1..Len(processes_cls)}

ReceiverUntouched == M' = M /\ \A k \in DOMAIN M.obj : heap'[M.obj[k]] = heap[M.obj[k]]

\* C6: a build whose process set holds a foreign variable (with or without a
\* group label) naming a class outside the set raises KeyError and gives no
\* Model; when the build is that of update_processes or drop_processes the
\* receiver stays as it was.
C6_UnresolvedAborts == [](builder.err # "new" /\ DanglingForeign(builder.cls) => builder.err = "KeyError" /\ Result.status = "KeyError") /\ [][M.status = "ok" /\ R'.status = "KeyError" => ReceiverUntouched]_vars

\* C6 witness: drop_processes removed the class a group-labelled foreign
\* variable of a remaining process names, and failed.
C6_Witness == M.status = "ok" /\ builder.via = "drop_processes" /\ R.status = "KeyError" /\ \E i \in 1..Len(builder.cls) : \E v \in Range(filter_variables(builder.cls[i].cls)) : v.var_type = "FOREIGN" /\ v.group = "g" /\ v.target_cls \notin {builder.cls[j].cls : j \in 1..Len(builder.cls)}

\* The objects a phase goes through.
PhaseSeq(meth) == IF meth \in {"initialize", "finalize"} THEN M.processes ELSE M.time_processes

LogNames == [j \in 1..Len(call.log) |-> call.log[j].p]

\* C7 (as claimed): in a phase call in which no hook raises, the hook of every
\* object of the phase (all processes for initialize and finalize, the time
\* processes for run_step and finalize_step) is invoked exactly once, in sorted
\* order, dependencies first.
C7_EveryHookOnceInOrder == (call.phase # "none" /\ call.failing = "nobody") => (LogNames = PhaseSeq(call.phase) /\ \A i, j \in 1..Len(call.log) : call.log[i].p \in Range(M.dep_processes[call.log[j].p]) => i < j)

\* C8: when the hook of an object raises in a phase call, the hooks invoked
\* are those of the objects up to that one in sorted order, each once, none
\* after it, and the call raises that very error.
C8_FailureAborts == (call.phase # "none" /\ call.failing \in Range(LogNames)) => (LogNames = SubSeq(PhaseSeq(call.phase), 1, IndexOf(PhaseSeq(call.phase), call.failing)) /\ call.result = "raised" /\ call.error = call.raises)

\* C8 witness: the second of three hooks raised.
C8_Witness == call.phase # "none" /\ call.failing \in Range(LogNames) /\ Len(call.log) = 2 /\ Len(PhaseSeq(call.phase)) = 3 /\ call.result = "raised"

\* C9: no call changes M (its process sequence, objects with their keys and
\* slots, dependencies, inputs), whether the call returns or raises, and a
\* returned pipeline holds no object of M.
C9_ReceiverUnchanged == [][M.status = "ok" => ReceiverUntouched]_vars /\ [](M.status = "ok" /\ R.status = "ok" => {R.obj[k] : k \in DOMAIN R.obj} \cap {M.obj[k] : k \in DOMAIN M.obj} = {})

\* C9 witness: a slot of an object of a returned pipeline was written and the
\* object of that name in M still has it unset.
C9_Witness == M.status = "ok" /\ R.status = "ok" /\ \E p \in DOMAIN R.obj \cap DOMAIN M.obj : \E v \in DOMAIN heap[R.obj[p]].slots \cap DOMAIN heap[M.obj[p]].slots : heap[R.obj[p]].slots[v] = 1 /\ heap[M.obj[p]].slots[v] = 0

DepSetsOf(model) == [k \in DOMAIN model.dep_processes |-> Range(model.dep_processes[k])]

\* C10 (as claimed): clone() succeeds and gives the same names bound to the
\* same classes, the same dependencies, the same inputs and the same order.
C10_CloneEquivalent == (M.status = "ok" /\ builder.via = "clone" /\ R.status # "new") => (R.status = "ok" /\ Range(ClassesOf(R)) = Range(ClassesOf(M)) /\ DepSetsOf(R) = DepSetsOf(M) /\ Range(R.input_vars) = Range(M.input_vars) /\ R.processes = M.processes)

\* C11 (as claimed): the sorted order of a Model is the same for every order
\* in which the depends-on sets of its processes are turned into lists.
C11_OrderDeterministic == M.status = "ok" => \A dep \in ListChoices(DepSetsOf(M), DOMAIN M.dep_processes) : sort_processes(dep, KeysOf(builder.cls)).ordered = M.processes

\* Position of the process of a store key in the construction scan, and of its
\* variable among the variables of that process.
KeyProcessPos(k) == IndexOf(KeysOf(builder.cls), k.p)

KeyVariablePos(k) == CHOOSE i \in 1..Len(filter_variables(BObj(k.p).cls)) : filter_variables(BObj(k.p).cls)[i].name = k.v

KeyBefore(k1, k2) == KeyProcessPos(k1) < KeyProcessPos(k2) \/ (KeyProcessPos(k1) = KeyProcessPos(k2) /\ KeyVariablePos(k1) < KeyVariablePos(k2))

\* C12 (as claimed): Model.input_vars lists its keys by process in the order
\* of the construction scan, then by variable within the process.
C12_InputOrderStable == M.status = "ok" => \A i, j \in 1..Len(M.input_vars) : i < j => KeyBefore(M.input_vars[i], M.input_vars[j])

\* C13 (as claimed): for every edge owner -> target of the dependencies of a
\* Model (the owner depends on the target), the owner comes before the target
\* in the sorted order.
C13_OwnerBeforeTarget == M.status = "ok" => \A p \in DOMAIN M.dep_processes : \A d \in Range(M.dep_processes[p]) : IndexOf(M.processes, p) < IndexOf(M.processes, d)

\* C13 (amended): for every edge owner -> target of the dependencies of a
\* Model, the target comes before the owner in the sorted order, and the
\* sorted order holds every process name once.
C13_TargetBeforeOwner == M.status = "ok" => (IsPermutationOf(M.processes, DOMAIN M.dep_processes) /\ \A p \in DOMAIN M.dep_processes : \A d \in Range(M.dep_processes[p]) : IndexOf(M.processes, d) < IndexOf(M.processes, p))

\* C13 witness: a Model in which a process depends on a process that comes
\* after it in the dictionary, so that the sort moved it.
C13_Witness == M.status = "ok" /\ M.processes # KeysOf(builder.cls) /\ \E p \in DOMAIN M.dep_processes : \E d \in Range(M.dep_processes[p]) : IndexOf(KeysOf(builder.cls), p) < IndexOf(KeysOf(builder.cls), d)

\* C14: the dependencies of a build whose keys resolved have one entry per
\* process name, name only processes of the build, never the process of the
\* entry itself, and no name twice in one entry.
C14_AdjacencyWellFormed == Built => (DOMAIN builder.dep = Range(KeysOf(builder.cls)) /\ \A p \in DOMAIN builder.dep : (Range(builder.dep[p]) \subseteq Range(KeysOf(builder.cls)) /\ p \notin Range(builder.dep[p]) /\ Len(builder.dep[p]) = Cardinality(Range(builder.dep[p]))))

\* C14 witness: a build in which a foreign variable of a process resolves to
\* an OUT variable of that same process, another process depends on it, and
\* its own entry is empty.
C14_Witness == Built /\ \E p, q \in DOMAIN builder.obj : p # q /\ builder.dep[p] = <<>> /\ p \in Range(builder.dep[q]) /\ \E v \in BVars(p) : v.var_type = "FOREIGN" /\ \E k \in AtomKeys(p, v) : KeyProcess(k) = p /\ KeyVariable(k).intent = "OUT"

\* The class of process p of M.
ClassOfProcess(p) == heap[M.obj[p]].cls

\* C15: the time processes of a Model are the processes whose object has a
\* run_step or a finalize_step method, each once, in sorted order.
C15_TimeProcesses == M.status = "ok" => (Range(M.time_processes) = {p \in Range(M.processes) : caps[ClassOfProcess(p)]["run_step"] \/ caps[ClassOfProcess(p)]["finalize_step"]} /\ \A i, j \in 1..Len(M.time_processes) : i < j => IndexOf(M.processes, M.time_processes[i]) < IndexOf(M.processes, M.time_processes[j]))

\* C15 witness: a Model of three processes of which one has neither method,
\* one has finalize_step only, and the sort changed the dictionary order.
C15_Witness == M.status = "ok" /\ Len(M.processes) = 3 /\ Len(M.time_processes) = 2 /\ M.processes # KeysOf(builder.cls) /\ \E p \in Range(M.time_processes) : ~caps[ClassOfProcess(p)]["run_step"]

\* The (process, variable) pairs of the last build whose variable is a group
\* variable aggregating label g, and those whose variable is a member of g.
GroupVarsOf(g) == {pv \in UNION {{<<p, v>> : v \in BVars(p)} : p \in DOMAIN builder.obj} : pv[2].var_type = "GROUP" /\ pv[2].group = g}

GroupMembersOf(g) == {pv \in UNION {{<<p, v>> : v \in BVars(p)} : p \in DOMAIN builder.obj} : pv[2].var_type # "GROUP" /\ pv[2].group = g}

\* C16: in a build whose keys resolved, every group variable of a label holds
\* the very pair of key lists kept for the label, the processes were scanned
\* once for each label kept and never for another, and what is kept comes from
\* this build: a label is kept only if the build has a group variable for it,
\* and every key kept is a key of a member of the label in this build.
C16_GroupResolutionCached == Built => \A g \in GroupLabels : ((\A pv \in GroupVarsOf(g) : builder.group_keys[g].cached /\ BObj(pv[1]).store_keys[pv[2].name] = ListKey(builder.group_keys[g].store) /\ BObj(pv[1]).od_keys[pv[2].name] = ListKey(builder.group_keys[g].od)) /\ builder.scans = Cardinality({l \in GroupLabels : builder.group_keys[l].cached}) /\ (builder.group_keys[g].cached => GroupVarsOf(g) # {}) /\ \A k \in Range(builder.group_keys[g].store) \cup Range(builder.group_keys[g].od) : \E pv \in GroupMembersOf(g) : k \in AtomKeys(pv[1], pv[2]))

\* C16 witness: a Model returned by clone, update_processes or drop_processes
\* in which two processes hold a group variable of the same label and the
\* label has a member.
C16_Witness == M.status = "ok" /\ R.status = "ok" /\ builder.via # "Model" /\ \E g \in GroupLabels : Cardinality(GroupVarsOf(g)) >= 2 /\ builder.group_keys[g].store # <<>> /\ builder.scans = 1

\* Every name of the mapping comes after the names it depends on in the order
\* of the keys.
KeysConsistent(dep, keys) == \A p \in DOMAIN dep : \A d \in Range(dep[p]) : IndexOf(keys, d) < IndexOf(keys, p)

\* C17: when the key order of the mapping already has every name after the
\* names it depends on, the sort ends and returns the key order.
C17_ConsistentOrderKept == (sorter.status \notin {"idle", "run"} /\ KeysConsistent(sorter.dep, sorter.keys)) => (sorter.status = "done" /\ sorter.ordered = sorter.keys)

\* C17 witness: a finished sort of three names in consistent key order, the
\* last depending on the two others and the second on the first.
C17_Witness == sorter.status = "done" /\ Len(sorter.keys) = 3 /\ KeysConsistent(sorter.dep, sorter.keys) /\ Len(sorter.dep[sorter.keys[3]]) = 2 /\ Len(sorter.dep[sorter.keys[2]]) = 1 /\ sorter.ordered = sorter.keys

\* The members of label g in the last build (variables labelled g that are no
\* group variables), in the order of the dictionary, then of declaration.
MemberSeq(g) == SelectSeq(ScanVars(builder), LAMBDA x : x.var.group = g /\ x.var.var_type # "GROUP")

\* The store keys, and the on-demand keys, the members of g resolved to.
MemberStoreKeys(g) == LET ms == SelectSeq(MemberSeq(g), LAMBDA x : BObj(x.p).store_keys[x.var.name] # KeyNone) IN [i \in 1..Len(ms) |-> BObj(ms[i].p).store_keys[ms[i].var.name]]

MemberOdKeys(g) == LET ms == SelectSeq(MemberSeq(g), LAMBDA x : BObj(x.p).od_keys[x.var.name] # KeyNone) IN [i \in 1..Len(ms) |-> BObj(ms[i].p).od_keys[ms[i].var.name]]

\* C18: a group variable of label g resolves to the store keys and to the
\* on-demand keys of the members of g over all processes, its own included,
\* in dictionary order then declaration order; no entry is itself a list, so
\* group variables labelled g contribute nothing.
C18_GroupKeysAreMemberKeys == Built => \A p \in DOMAIN builder.obj : \A v \in BVars(p) : v.var_type = "GROUP" => (BObj(p).store_keys[v.name] = ListKey(MemberStoreKeys(v.group)) /\ BObj(p).od_keys[v.name] = ListKey(MemberOdKeys(v.group)) /\ \A k \in Range(BObj(p).store_keys[v.name].items) \cup Range(BObj(p).od_keys[v.name].items) : k.tag \in {"store", "od"})

\* C18 witness: two processes hold a group variable of label g and each has a
\* member of g of its own, so each list has two keys, one of the own process.
C18_Witness == M.status = "ok" /\ \E g \in GroupLabels : Cardinality(GroupVarsOf(g)) >= 2 /\ \E pv \in GroupVarsOf(g) : Len(BObj(pv[1]).store_keys[pv[2].name].items) >= 2 /\ BObj(pv[1]).store_keys[pv[2].name].items[1] # BObj(pv[1]).store_keys[pv[2].name].items[2] /\ \E k \in Range(BObj(pv[1]).store_keys[pv[2].name].items) : k.p = pv[1]

\* The keys of an owned variable v of process p: store key (p, v), no
\* on-demand key; an on-demand variable has neither.
OwnedKeysRight(p, v) == BObj(p).store_keys[v.name] = (IF v.var_type = "VARIABLE" THEN StoreKey(p, v.name) ELSE KeyNone) /\ BObj(p).od_keys[v.name] = KeyNone

\* The keys of a foreign variable v of process p: an on-demand key (object of
\* this build of the target class, target name) when the target is an
\* on-demand variable, else a store key (name of a process of this build of
\* the target class, target name); never both.
ForeignKeysRight(p, v) ==
    LET st == BObj(p).store_keys[v.name]
        od == BObj(p).od_keys[v.name]
    IN  IF VarOf(v.target_cls, v.target_var).var_type = "ON_DEMAND"
        THEN st = KeyNone /\ od.tag = "od" /\ od.v = v.target_var /\ \E q \in DOMAIN builder.obj : builder.obj[q] = od.obj /\ BObj(q).cls = v.target_cls
        ELSE od = KeyNone /\ st.tag = "store" /\ st.v = v.target_var /\ st.p \in DOMAIN builder.obj /\ BObj(st.p).cls = v.target_cls

\* C19: after set_process_keys every variable, on-demand and foreign variable
\* of every process has the keys of its kind.
C19_KeysByKind == Built => \A p \in DOMAIN builder.obj : \A v \in BVars(p) : ((v.var_type \in {"VARIABLE", "ON_DEMAND"} => OwnedKeysRight(p, v)) /\ (v.var_type = "FOREIGN" => ForeignKeysRight(p, v)))

\* C19 witness: a build with a foreign variable on an on-demand target, a
\* foreign variable on a stored target, and two processes of the target class
\* of one of them.
C19_Witness == Built /\ Len(builder.cls) = 3 /\ \E p, q, r \in DOMAIN builder.obj : p # q /\ q # r /\ BObj(q).cls = BObj(r).cls /\ \E v \in BVars(p), w \in BVars(q) : v.var_type = "FOREIGN" /\ w.var_type = "FOREIGN" /\ BObj(p).od_keys[v.name] # KeyNone /\ BObj(q).store_keys[w.name] # KeyNone /\ v.target_cls = BObj(q).cls

\* C20 (as claimed): a run_step or finalize_step call in which no hook raises
\* returns, having invoked the hook on the time processes that have it, and
\* on no other.
C20_StepHooksNeverFail == (call.phase \in {"run_step", "finalize_step"} /\ call.failing = "nobody") => (call.result = "returned" /\ LogNames = SelectSeq(M.time_processes, LAMBDA p : caps[ClassOfProcess(p)][call.phase]))

\* Every class of the model is bound to one name only.
OneNamePerClass(model) == \A p, q \in DOMAIN model.obj : heap[model.obj[p]].cls = heap[model.obj[q]].cls => p = q

\* The sequence s without the names of keys, order kept.
Without(s, keys) == SelectSeq(s, LAMBDA p : p \notin keys)

\* C21: when every class of M is bound to one name only and drop_processes(keys)
\* returns a Model, the process sequence of that Model is the sorted sequence
\* of M without the names of keys, in the same relative order; names of keys
\* that M does not hold change nothing, and a single name is a list of one.
C21_DropKeepsOrder == (M.status = "ok" /\ R.status = "ok" /\ builder.via = "drop_processes" /\ OneNamePerClass(M)) => (R.processes = Without(M.processes, builder.keys) /\ R.processes = Without(M.processes, builder.keys \cap DOMAIN M.obj))

\* C21 witness: M holds three processes of three classes; the call named the
\* first of its sorted sequence and returned the two others, which are not in
\* the order of their names and one of which depends on the other.
C21_Witness == M.status = "ok" /\ R.status = "ok" /\ builder.via = "drop_processes" /\ OneNamePerClass(M) /\ Len(M.processes) = 3 /\ builder.keys = {M.processes[1]} /\ R.processes = SubSeq(M.processes, 2, 3) /\ IndexOf(NameSeq, M.processes[3]) < IndexOf(NameSeq, M.processes[2]) /\ \E p \in DOMAIN R.dep_processes : R.dep_processes[p] # <<>>

\* A call of drop_processes named a process M holds and a name M does not
\* hold, and returned a Model that still holds a process.
C21_IgnoredNameReached == M.status = "ok" /\ R.status = "ok" /\ builder.via = "drop_processes" /\ OneNamePerClass(M) /\ builder.keys \cap DOMAIN M.obj # {} /\ builder.keys \ DOMAIN M.obj # {} /\ R.processes # <<>>

\* C22: for every dependency mapping whose depends-on names are all keys, the
\* sort ends, with an order or with the cycle error, and until then pushes no
\* more names than the square of the number of keys, although a name can be
\* pushed once by each unfinished name that depends on it.
C22_SortTerminates == <>(sorter.status \in {"done", "cycle"}) /\ [](sorter.pushes <= Len(sorter.keys) * Len(sorter.keys)) /\ [][sorter.status \in {"done", "cycle"} => sorter' = sorter]_vars

\* C22 witness: a sort of three names ended with an order after more pushes
\* than names, so that a name was pushed again before it was completed; the
\* stack is empty and the outer loop is past the last key.
C22_Witness == sorter.status = "done" /\ Len(sorter.keys) = 3 /\ sorter.pushes > Len(sorter.keys) /\ sorter.nodes = <<>> /\ sorter.ki > Len(sorter.keys) /\ Len(sorter.ordered) = 3

\* A sort ended with the cycle error while a name was twice on the stack.
C22_CycleWithRepeatReached == sorter.status = "cycle" /\ sorter.pushes > Len(sorter.keys)
====
